---- MODULE Spec2Model ----
(***************************************************************************)
(* Model of the doc-scraper crawl engine (doc_scraper/scraper.py):         *)
(* WebScraper.scrape_site / scrape_page with its per-batch thread pools,   *)
(* the visited set, the response cache, the URL filter and the menu tree.  *)
(*                                                                         *)
(* A URL string is a sequence of tokens; the delimiters ":", "//", "/",    *)
(* "?" and "#" are tokens of their own, so that urlparse, startswith and   *)
(* the substring tests of the code are computed on the text of the URL.    *)
(* The crawl state holds URLs by their index in the table Urls.            *)
(***************************************************************************)
EXTENDS Integers, Sequences, FiniteSets, TLC

\* ------------------------------------------------------------------ bounds
MaxDepthBound == 2
MaxWorkersBound == 2
MaxBatchBound == 2
MaxCacheBound == 1
\* the sequential caller of the response cache
MaxCapacityBound == 2
MaxRequestsBound == 4
\* the calls of scrape_site made on an engine after its first one
MaxRecrawlBound == 1
\* the elements of the body of a parsed page
MaxBodyBound == 2

\* --------------------------------------------------------- the URL strings
\* Python's None, for a URL, for a netloc and for a MenuNode
None == 0
NoDomain == <<>>
NoNode == <<>>

Urls ==
  << <<"https", ":", "//", "d.example", "/", "docs">>,
     <<"https", ":", "//", "d.example", "/", "docs", "/", "a">>,
     <<"https", ":", "//", "d.example", "/", "docs", "/", "b">>,
     <<"https", ":", "//", "d.example", "/", "docs", "/", "a", "/", "c">>,
     <<"https", ":", "//", "other.example", "/", "docs", "/", "a">>,
     <<"invalid-url">>,
     <<"https", ":", "/", "docs">>,
     <<"https", ":", "//", "d.example">>,
     <<"https", ":", "//", "d.example", ".evil", "/", "docs">>,
     <<"//", "d.example", "/", "docs">>,
     <<"https", ":", "//", "d.example", "/", "docs", "/", "archive", "/", "x">>,
     <<"https", ":", "//", "docs.example.com", "/">>,
     <<"https", ":", "//", "docs.example.com", "/", "a">>,
     <<"https", ":", "//", "docs.example.com", "/", "b">>,
     <<"https", ":", "//", "docs.snowflake.com", "/", "en", "/", "reference",
       "/", "intro">>,
     <<"https", ":", "//", "docs.snowflake.com", "/", "en", "/", "archive",
       "/", "old-page">>,
     <<"https", ":", "//", "docs.snowflake.com", "/", "en", "/", "reference",
       "/", "sql", "/", "create-table">>,
     <<"https", ":", "//", "example.com", "/", "page">>,
     <<"https", ":", "//", "docs.snowflake.com", "/", "en", "/", "release-notes",
       "/", "2023">>,
     <<"https", ":", "//", "hub.example", "/">>,
     <<"https", ":", "//", "hub.example", "/", "p">>,
     <<"https", ":", "//", "hub.example", "/", "q">>,
     <<"https", ":", "//", "hub.example", "/", "p", "/", "s">>,
     <<"https", ":", "//", "hub.example", "/", "z">>,
     <<"https", ":", "//", "d.example", "/", "docs", "/", "a", "?", "page=2">>,
     <<"https", ":", "//", "d.example", "/", "docs", "/", "a", "#", "top">>,
     <<"mailto", ":", "docs@d.example">>,
     <<"https", ":", "//", "docs.example.com", "/", "b", "/", "n">>,
     <<"https", ":", "//", "docs.snowflake.com", "/", "en", "/", "Archive",
       "/", "old-page">> >>

UrlId == 1..Len(Urls)

R == 1
A == 2
B == 3
C == 4
X == 5
Bad == 6
NoHost == 7
R2 == 8
Evil == 9
NoScheme == 10
Arch == 11
Docs == 12
DocsA == 13
DocsB == 14
SnowIntro == 15
SnowArchive == 16
SnowCreate == 17
ExamplePage == 18
SnowNotes == 19
Hub == 20
HubP == 21
HubQ == 22
HubS == 23
HubZ == 24
AQuery == 25
AFragment == 26
MailTo == 27
DocsN == 28
SnowUpper == 29

\* First index >= i of s holding a token in D, or Len(s)+1.
RECURSIVE FindFrom(_, _, _)
FindFrom(s, i, D) ==
  IF i > Len(s) THEN Len(s) + 1
  ELSE IF s[i] \in D THEN i
  ELSE FindFrom(s, i + 1, D)

Delims == {":", "//", "/", "?", "#"}

\* urllib.parse.urlparse: scheme, netloc, path, query, fragment.
urlparse(u) ==
  LET hasScheme == Len(u) >= 2 /\ u[2] = ":" /\ u[1] \notin Delims
      scheme    == IF hasScheme THEN <<u[1]>> ELSE <<>>
      r1        == IF hasScheme THEN SubSeq(u, 3, Len(u)) ELSE u
      hasLoc    == Len(r1) >= 1 /\ r1[1] = "//"
      locEnd    == FindFrom(r1, 2, {"/", "?", "#"})
      netloc    == IF hasLoc THEN SubSeq(r1, 2, locEnd - 1) ELSE <<>>
      r2        == IF hasLoc THEN SubSeq(r1, locEnd, Len(r1)) ELSE r1
      hashAt    == FindFrom(r2, 1, {"#"})
      fragment  == SubSeq(r2, hashAt + 1, Len(r2))
      r3        == SubSeq(r2, 1, hashAt - 1)
      qAt       == FindFrom(r3, 1, {"?"})
      query     == SubSeq(r3, qAt + 1, Len(r3))
      path      == SubSeq(r3, 1, qAt - 1)
  IN [scheme |-> scheme, netloc |-> netloc, path |-> path,
      query |-> query, fragment |-> fragment]

\* WebScraper._is_valid_url: all([result.scheme, result.netloc]).
SchemeOnly_is_valid_url(u) == urlparse(u).scheme # <<>>

_is_valid_url(u) ==
  urlparse(u).scheme # <<>> /\ urlparse(u).netloc # <<>>

\* str.startswith
startswith(s, p) ==
  Len(p) <= Len(s) /\ SubSeq(s, 1, Len(p)) = p

\* the 'in' operator on strings: p is a substring of s
contains(s, p) ==
  \E i \in 1..(Len(s) - Len(p) + 1) : SubSeq(s, i, i + Len(p) - 1) = p

\* len(urlparse(u).path.split("/"))
SegCount(u) ==
  LET p == urlparse(u).path
  IN Cardinality({i \in 1..Len(p) : p[i] = "/"}) + 1

\* urlparse, _is_valid_url and the segment count of the URLs of the table
UrlParts == [i \in UrlId |-> urlparse(Urls[i])]

ValidUrl == [i \in UrlId |-> _is_valid_url(Urls[i])]

Segs == [i \in UrlId |-> SegCount(Urls[i])]

\* ----------------------------------------------------------------- the site
\* The pages served by the crawled site: the absolute URLs that urljoin
\* yields for the anchors matched by the priority selectors, and by the
\* remaining menu selectors.
PriorityLinks(u) ==
  CASE u = R -> {A, B, X}
    [] u = A -> {C, R}
    [] u = B -> {C}
    [] u = C -> {R}
    [] u = R2 -> {Evil}
    [] u = Docs -> {DocsA, DocsB, X}
    [] u = DocsA -> {DocsB}
    [] u = DocsB -> {DocsN}
    [] u = Hub -> {HubP, HubQ}
    [] u = HubP -> {HubS}
    [] u = HubQ -> {HubS, HubZ}
    [] OTHER -> {}

OtherLinks(u) ==
  CASE u = R -> {R}
    [] u = B -> {R}
    [] OTHER -> {}

\* ScraperConfig.excluded_paths
excluded_paths ==
  { <<"/", "search">>, <<"/", "login">>, <<"/", "signup">>,
    <<"/", "register">>, <<"/", "contact">>, <<"/", "download">>,
    <<"/", "print">> }

\* the threshold of WebScraper._find_menu_links
PriorityEnough == 5

\* ------------------------------------------------------------ site adapters
\* AdapterRegistry._adapters in registration order (site_adapters/__init__).
RegisteredAdapters == <<"default", "snowflake">>

SnowflakeDomains == { <<"docs.snowflake.com">> }

\* self.domains of DefaultSiteAdapter and BaseSiteAdapter (none) and of
\* SnowflakeAdapter
domains(name) == IF name = "snowflake" THEN SnowflakeDomains ELSE {}

\* DefaultSiteAdapter.can_handle / BaseSiteAdapter.can_handle
can_handle(name, u) ==
  IF name = "default" THEN TRUE
  ELSE u # <<>> /\ urlparse(u).netloc \in domains(name)

\* The loop keeps going after a hit: the last adapter that can handle u.
last_adapter(adapters, i, u) ==
  LET hits == {j \in i..Len(adapters) : can_handle(adapters[j], u)}
  IN IF hits = {} THEN "default"
     ELSE adapters[CHOOSE j \in hits : \A k \in hits : k <= j]

\* The loop of AdapterRegistry.get_adapter_for_url from the i-th registered
\* adapter on, and the default adapter after the loop.
RECURSIVE first_adapter(_, _, _)
first_adapter(adapters, i, u) ==
  IF i > Len(adapters) THEN "default"
  ELSE IF can_handle(adapters[i], u) THEN adapters[i]
  ELSE first_adapter(adapters, i + 1, u)

\* AdapterRegistry.get_adapter_for_url with the built-in registrations
get_adapter_for_url(u) == first_adapter(RegisteredAdapters, 1, u)

\* str.lower on the tokens of a URL
LowerTok(t) ==
  CASE t = "Archive" -> "archive"
    [] t = "Release-Notes" -> "release-notes"
    [] OTHER -> t

lower(u) == [i \in 1..Len(u) |-> LowerTok(u[i])]

SnowflakeExcluded ==
  { <<"/", "archive", "/">>, <<"/", "release-notes", "/">>,
    <<"/", "previous-versions", "/">> }

\* the elements of s that are in keep, in the order of s
SelectIds(s, keep) ==
  LET idx == {i \in 1..Len(s) : s[i] \in keep}
  IN [k \in 1..Cardinality(idx) |->
        s[CHOOSE i \in idx : Cardinality({j \in idx : j <= i}) = k]]

SeqRange(s) == {s[i] : i \in 1..Len(s)}

\* The exclusions of the Snowflake adapter looked for in the URL as written.
adapter_filter_urls_cased(name, urls) ==
  IF name = "snowflake"
  THEN SelectIds(urls,
         {u \in SeqRange(urls) :
            /\ UrlParts[u].netloc \in SnowflakeDomains
            /\ \A x \in SnowflakeExcluded : ~contains(Urls[u], x)})
  ELSE urls

\* BaseSiteAdapter.filter_urls / SnowflakeAdapter.filter_urls
adapter_filter_urls(name, urls) ==
  IF name = "snowflake"
  THEN SelectIds(urls,
         {u \in SeqRange(urls) :
            /\ UrlParts[u].netloc \in SnowflakeDomains
            /\ \A x \in SnowflakeExcluded : ~contains(lower(Urls[u]), x)})
  ELSE urls

\* ----------------------------------------------------- content extraction
\* A parsed page is the list of the elements of its body; an element has a
\* tag, a class ("" for none), the words of its own text (" " is white
\* space) and the list of its child elements.
Elem(tag, cls, text, kids) ==
  [tag |-> tag, cls |-> cls, text |-> text, kids |-> kids]

\* soup.body
Body(doc) == Elem("body", "", <<>>, doc)

HeadingTags == {"h1", "h2", "h3", "h4", "h5", "h6"}

\* the elements under a list of elements, in document order
RECURSIVE Flatten(_)
Flatten(L) ==
  IF L = <<>> THEN <<>>
  ELSE <<Head(L)>> \o Flatten(Head(L).kids) \o Flatten(Tail(L))

\* for element in soup(tags): element.decompose()
RECURSIVE decompose(_, _)
decompose(L, tags) ==
  IF L = <<>> THEN <<>>
  ELSE IF Head(L).tag \in tags THEN decompose(Tail(L), tags)
  ELSE <<[Head(L) EXCEPT !.kids = decompose(@, tags)]>>
       \o decompose(Tail(L), tags)

\* a CSS selector of the lists of the adapters: a tag or a class
Selected(e, selector) == selector = e.tag \/ selector = e.cls

\* the loop over the selectors with soup.select_one, from the k-th selector
\* on: the first element of the first selector that has one, else the body
RECURSIVE select_main(_, _, _)
select_main(doc, selectors, k) ==
  IF k > Len(selectors) THEN Body(doc)
  ELSE LET sel(e) == Selected(e, selectors[k])
           hits == SelectSeq(Flatten(doc), sel)
       IN IF hits # <<>> THEN hits[1]
          ELSE select_main(doc, selectors, k + 1)

RECURSIVE Texts(_)
Texts(L) == IF L = <<>> THEN <<>> ELSE Head(L).text \o Texts(Tail(L))

\* Tag.get_text()
get_text(e) == Texts(Flatten(<<e>>))

\* str.strip on the words of a text; the chunks of the plain extraction
strip(text) ==
  LET word(w) == w # " "
  IN SelectSeq(text, word)

Part(kind, text) == [kind |-> kind, text |-> text]

\* what the loop over the siblings of a heading appends for one sibling
sibling_part(e) ==
  CASE e.tag = "p" -> <<Part("p", strip(get_text(e)))>>
    [] e.tag = "pre" \/ \E i \in 1..Len(e.kids) : e.kids[i].tag = "code" ->
         IF strip(get_text(e)) # <<>>
         THEN <<Part("code", strip(get_text(e)))>> ELSE <<>>
    [] e.tag = "table" -> <<Part("table", strip(get_text(e)))>>
    [] e.tag \in {"ul", "ol"} -> <<Part("list", strip(get_text(e)))>>
    [] OTHER -> <<>>

\* the while loop over heading.next_sibling, from the j-th element of L on
RECURSIVE sibling_parts(_, _)
sibling_parts(L, j) ==
  IF j > Len(L) \/ L[j].tag \in HeadingTags THEN <<>>
  ELSE sibling_part(L[j]) \o sibling_parts(L, j + 1)

\* the loop over main_content.find_all(headings), for the elements of L
\* from the i-th on and what is under them
RECURSIVE heading_parts(_, _)
heading_parts(L, i) ==
  IF i > Len(L) THEN <<>>
  ELSE (IF L[i].tag \in HeadingTags /\ strip(get_text(L[i])) # <<>>
        THEN <<Part("heading", strip(get_text(L[i])))>>
             \o sibling_parts(L, i + 1)
        ELSE <<>>)
       \o heading_parts(L[i].kids, 1)
       \o heading_parts(L, i + 1)

\* the lines of main_content.get_text(), stripped, the empty ones left out
plain_parts(e) ==
  LET words == strip(get_text(e))
  IN [i \in 1..Len(words) |-> Part("text", <<words[i]>>)]

DefaultRemoved == {"script", "style", "nav", "footer", "iframe"}

DefaultContainers == <<".main-content", "main", "article", ".content", "#content">>

\* BaseSiteAdapter.extract_content: the parts joined into the text returned
Base_extract_content(doc) ==
  LET soup == decompose(doc, DefaultRemoved)
      main_content == select_main(soup, DefaultContainers, 1)
      content_parts == heading_parts(main_content.kids, 1)
  IN IF content_parts = <<>> THEN plain_parts(main_content)
     ELSE content_parts

SnowflakeRemoved == {"script", "style", "footer", "iframe"}

SnowflakeContainers ==
  <<".documentationContent", ".main-content", "main", "article",
    ".content-container">>

\* SnowflakeAdapter.extract_content
Snowflake_extract_content(doc) ==
  LET soup == decompose(doc, SnowflakeRemoved)
      main_content == select_main(soup, SnowflakeContainers, 1)
      content_parts == heading_parts(main_content.kids, 1)
  IN IF content_parts = <<>> THEN Base_extract_content(soup)
     ELSE content_parts

\* ------------------------------------------------------ the filter pipeline
\* WebScraper._is_same_domain behind functools.lru_cache: memo holds the
\* answers already computed, by URL.
NoDomainCheck_is_same_domain(memo, base_domain, u) == TRUE

_is_same_domain(memo, base_domain, u) ==
  IF u \in DOMAIN memo THEN memo[u]
  ELSE IF base_domain = NoDomain THEN TRUE
  ELSE UrlParts[u].netloc = base_domain

PseudoMarks == { <<"javascript", ":">>, <<"mailto", ":">>, <<"tel", ":">>,
                 <<"#">>, <<"?">> }

\* the tests of the loop without the one on config.excluded_paths
PassesBasicNoExcluded(u, visited, base_url, base_domain, memo, excluded) ==
  /\ u \notin visited
  /\ _is_same_domain(memo, base_domain, u)
  /\ UrlParts[u].fragment = <<>>
  /\ UrlParts[u].query = <<>>
  /\ (base_url # None => startswith(Urls[u], Urls[base_url]))
  /\ \A m \in PseudoMarks : ~contains(Urls[u], m)

\* the per-URL tests of the loop of WebScraper._filter_urls
PassesBasic(u, visited, base_url, base_domain, memo, excluded) ==
  /\ u \notin visited
  /\ _is_same_domain(memo, base_domain, u)
  /\ \A e \in excluded : ~contains(Urls[u], e)
  /\ UrlParts[u].fragment = <<>>
  /\ UrlParts[u].query = <<>>
  /\ (base_url # None => startswith(Urls[u], Urls[base_url]))
  /\ \A m \in PseudoMarks : ~contains(Urls[u], m)

\* The list is left in the order of the links of the page.
SortNone(s) == s

\* sorted by ascending segment count and then reversed: descending, with
\* the elements of as many segments in the reverse of their order in s.
SortAscReversed(s) ==
  LET before(i) == {j \in 1..Len(s) :
                      \/ Segs[s[j]] > Segs[s[i]]
                      \/ Segs[s[j]] = Segs[s[i]] /\ j > i}
  IN [k \in 1..Len(s) |->
        s[CHOOSE i \in 1..Len(s) : Cardinality(before(i)) = k - 1]]

\* list.sort(key=segment count, reverse=True): descending and stable, so
\* s[i] goes behind the elements with more segments and behind the earlier
\* elements with as many.
SortBySegs(s) ==
  LET before(i) == {j \in 1..Len(s) :
                      \/ Segs[s[j]] > Segs[s[i]]
                      \/ Segs[s[j]] = Segs[s[i]] /\ j < i}
  IN [k \in 1..Len(s) |->
        s[CHOOSE i \in 1..Len(s) : Cardinality(before(i)) = k - 1]]

\* the element of a set of one element
Only(S) == CHOOSE x \in S : TRUE

\* WebScraper._filter_urls: the loop, the filter of the adapter, the sort
_filter_urls(urls, visited, base_url, base_domain, memo, excluded) ==
  LET adapter == get_adapter_for_url(IF base_url = None THEN <<>>
                                     ELSE Urls[base_url])
  IN Only({ SortBySegs(kept) :
            kept \in { adapter_filter_urls(adapter, filtered) :
              filtered \in { SelectIds(urls,
                {u \in SeqRange(urls) :
                   PassesBasic(u, visited, base_url, base_domain,
                               memo, excluded)}) } } })

\* SnowflakeDocScraper.is_snowflake_url
is_snowflake_url(u) == UrlParts[u].netloc \in SnowflakeDomains

\* SnowflakeDocScraper._filter_urls: the filter of WebScraper, then the
\* tests on the domain and on the archive and version paths
Snowflake_filter_urls(urls, visited, base_url, base_domain, memo, excluded) ==
  Only({ SelectIds(filtered,
           {u \in SeqRange(filtered) :
              /\ is_snowflake_url(u)
              /\ \A x \in SnowflakeExcluded : ~contains(lower(Urls[u]), x)}) :
         filtered \in { _filter_urls(urls, visited, base_url, base_domain,
                                     memo, excluded) } })

\* the lru_cache of _is_same_domain after _filter_urls ran over urls
MemoAfter(urls, visited, base_domain, memo) ==
  LET asked == (SeqRange(urls) \ visited) \ DOMAIN memo
  IN [u \in DOMAIN memo \cup asked |->
        _is_same_domain(memo, base_domain, u)]

\* The remaining selectors are looked at whatever the priority ones gave.
menu_links_all(priority, other) == priority \cup other

\* the set menu_links of WebScraper._find_menu_links, from the links matched
\* by the priority selectors and those matched by the remaining selectors
menu_links(priority, other) ==
  IF Cardinality(priority) < PriorityEnough
  THEN priority \cup other
  ELSE priority

\* WebScraper._find_menu_links: the set of links of the page at u
_find_menu_links(u) == menu_links(PriorityLinks(u), OtherLinks(u))

\* list(menu_links): the orders in which a set can be listed
RECURSIVE ListingsOf(_)
ListingsOf(S) ==
  IF S = {} THEN {<<>>}
  ELSE UNION {{<<x>> \o s : s \in ListingsOf(S \ {x})} : x \in S}

\* ---------------------------------------------------------------- the state
VARIABLES
  config,            \* ScraperConfig: max_workers, batch_size, response_cache_size
  visited_urls,      \* WebScraper.visited_urls
  base_url,          \* WebScraper.base_url
  base_domain,       \* WebScraper.base_domain
  menu_tree,         \* WebScraper.menu_tree: the root MenuNode
  response_cache,    \* WebScraper.response_cache: the keys in insertion order
  same_domain_memo,  \* the lru_cache of WebScraper._is_same_domain
  nodes,             \* the MenuNode objects, by the call that created them
  tasks,             \* the scrape_page calls, by their path of URLs from the root
  crawl,             \* the scrape_site call: status, url, max_depth, result
  fetches,           \* number of session.get calls made, by URL
  fetch_failed,      \* URLs for which a session.get call has failed
  calls              \* the calls made on one component by a sequential caller

vars == <<config, visited_urls, base_url, base_domain, menu_tree,
          response_cache, same_domain_memo, nodes, tasks, crawl,
          fetches, fetch_failed, calls>>

RootChoices == {R, R2, Bad, NoHost, NoScheme}

Terminal == {"returned", "raised"}

Parent(t) == SubSeq(t, 1, Len(t) - 1)

Url(t) == t[Len(t)]

IsRoot(t) == Len(t) = 1

\* One pool for the whole crawl: every call under way holds a worker of it.
BusyGlobal(t) ==
  {s \in DOMAIN tasks : tasks[s].pc \notin ({"pending"} \cup Terminal)}

\* The worker threads of the pool that runs t that are busy: every batch has
\* a ThreadPoolExecutor of its own, and a batch starts after the previous one
\* of the same call is over.
Busy(t) ==
  {s \in DOMAIN tasks :
     /\ Len(s) = Len(t)
     /\ Parent(s) = Parent(t)
     /\ tasks[s].pc \notin ({"pending"} \cup Terminal)}

\* the max_depth passed to the calls submitted for the links of a page
ChildDepthSame(d) == d

ChildDepth(d) == d - 1

NewTask(u, d) ==
  [pc |-> "pending", url |-> u, max_depth |-> d, result |-> {},
   links |-> <<>>, i |-> 0, batch |-> <<>>, collected |-> {},
   node |-> FALSE]

Set(t, rec) == [tasks EXCEPT ![t] = rec]

\* The engine after WebScraper.__init__, before any call on it.
Fresh ==
  /\ visited_urls = {}
  /\ base_url = None
  /\ base_domain = NoDomain
  /\ menu_tree = NoNode
  /\ response_cache = <<>>
  /\ same_domain_memo = <<>>
  /\ nodes = <<>>
  /\ tasks = <<>>
  /\ crawl = [status |-> "idle", url |-> None, max_depth |-> 0, result |-> {}]
  /\ fetches = [u \in UrlId |-> 0]
  /\ fetch_failed = {}
  /\ calls = <<>>

Init ==
  /\ config \in [max_workers : 1..MaxWorkersBound,
                 batch_size : 1..MaxBatchBound,
                 response_cache_size : 1..MaxCacheBound,
                 excluded_paths : {excluded_paths}]
  /\ Fresh

\* scrape_site(url, max_depth) calls scrape_page(url, max_depth).
StartCrawlFrom(roots) ==
  /\ crawl.status = "idle"
  /\ \E u \in roots, d \in 0..MaxDepthBound :
       /\ crawl' = [crawl EXCEPT !.status = "running", !.url = u, !.max_depth = d]
       /\ tasks' = (<<u>> :> NewTask(u, d))
  /\ UNCHANGED <<calls, config, visited_urls, base_url, base_domain, menu_tree,
                 response_cache, same_domain_memo, nodes, fetches, fetch_failed>>

StartCrawl == StartCrawlFrom(RootChoices)

\* The links submitted before t to the pool of t whose calls no worker has
\* taken yet: the work queue of a ThreadPoolExecutor is first in, first out.
QueuedAhead(t) ==
  IF IsRoot(t) THEN {}
  ELSE LET batch == tasks[Parent(t)].batch
       IN {i \in 1..Len(batch) :
             /\ \E j \in 1..Len(batch) : batch[j] = Url(t) /\ i < j
             /\ tasks[Append(Parent(t), batch[i])].pc = "pending"}

\* A pool that starts every call submitted to it at once.
StartUnbounded(t) ==
  /\ tasks[t].pc = "pending"
  /\ tasks' = Set(t, [tasks[t] EXCEPT !.pc = "start"])
  /\ UNCHANGED <<calls, config, visited_urls, base_url, base_domain, menu_tree,
                 response_cache, same_domain_memo, nodes, crawl,
                 fetches, fetch_failed>>

\* A free worker of the pool takes the call from the queue (scrape_site
\* calls scrape_page for the root itself).
Start(t) ==
  /\ tasks[t].pc = "pending"
  /\ QueuedAhead(t) = {}
  /\ Cardinality(Busy(t)) < config.max_workers
  /\ tasks' = Set(t, [tasks[t] EXCEPT !.pc = "start"])
  /\ UNCHANGED <<calls, config, visited_urls, base_url, base_domain, menu_tree,
                 response_cache, same_domain_memo, nodes, crawl,
                 fetches, fetch_failed>>

\* The head of scrape_page without the visited test.
BeginNoVisitedTest(t) ==
  /\ tasks[t].pc = "start"
  /\ tasks' = Set(t, [tasks[t] EXCEPT !.pc =
                 IF ~ValidUrl[Url(t)] THEN "raised" ELSE "add"])
  /\ UNCHANGED <<calls, config, visited_urls, base_url, base_domain, menu_tree,
                 response_cache, same_domain_memo, nodes, crawl,
                 fetches, fetch_failed>>

\* The head of scrape_page: the validity test and the visited test.
Begin(t) ==
  /\ tasks[t].pc = "start"
  /\ tasks' = Set(t, [tasks[t] EXCEPT !.pc =
                 IF ~ValidUrl[Url(t)] THEN "raised"
                 ELSE IF Url(t) \in visited_urls THEN "returned"
                 ELSE "add"])
  /\ UNCHANGED <<calls, config, visited_urls, base_url, base_domain, menu_tree,
                 response_cache, same_domain_memo, nodes, crawl,
                 fetches, fetch_failed>>

\* visited_urls.add(url) with the base set anew by every call.
VisitRebase(t) ==
  /\ tasks[t].pc = "add"
  /\ visited_urls' = visited_urls \cup {Url(t)}
  /\ base_url' = Url(t)
  /\ base_domain' = UrlParts[Url(t)].netloc
  /\ tasks' = Set(t, [tasks[t] EXCEPT !.pc = "lookup"])
  /\ UNCHANGED <<calls, config, menu_tree, response_cache, same_domain_memo,
                 nodes, crawl, fetches, fetch_failed>>

\* visited_urls.add(url), and the base of the run on the first request.
Visit(t) ==
  /\ tasks[t].pc = "add"
  /\ visited_urls' = visited_urls \cup {Url(t)}
  /\ base_url' = IF base_url = None THEN Url(t) ELSE base_url
  /\ base_domain' = IF base_url = None THEN UrlParts[Url(t)].netloc
                    ELSE base_domain
  /\ tasks' = Set(t, [tasks[t] EXCEPT !.pc = "lookup"])
  /\ UNCHANGED <<calls, config, menu_tree, response_cache, same_domain_memo,
                 nodes, crawl, fetches, fetch_failed>>

\* _get_cached_or_request: the membership test; a miss calls session.get.
Lookup(t) ==
  /\ tasks[t].pc = "lookup"
  /\ IF Url(t) \in SeqRange(response_cache)
     THEN /\ tasks' = Set(t, [tasks[t] EXCEPT !.pc = "hit"])
          /\ UNCHANGED fetches
     ELSE /\ tasks' = Set(t, [tasks[t] EXCEPT !.pc = "fetching"])
          /\ fetches' = [fetches EXCEPT ![Url(t)] = @ + 1]
  /\ UNCHANGED <<calls, config, visited_urls, base_url, base_domain, menu_tree,
                 response_cache, same_domain_memo, nodes, crawl, fetch_failed>>

\* _get_cached_or_request: return self.response_cache[url]
CacheRead(t) ==
  /\ tasks[t].pc = "hit"
  /\ tasks' = Set(t, [tasks[t] EXCEPT !.pc =
                 IF Url(t) \in SeqRange(response_cache) THEN "extract"
                 ELSE "raised"])
  /\ UNCHANGED <<calls, config, visited_urls, base_url, base_domain, menu_tree,
                 response_cache, same_domain_memo, nodes, crawl,
                 fetches, fetch_failed>>

\* self.response_cache[url] = response on an OrderedDict: a new key goes to
\* the end, a key that is there keeps its place.
cache_store(cache, u) ==
  IF u \in SeqRange(cache) THEN cache ELSE Append(cache, u)

\* popitem(last=True): the entry stored last is dropped.
popitem_newest(cache, size) ==
  IF Len(cache) > size THEN SubSeq(cache, 1, Len(cache) - 1) ELSE cache

\* if len(self.response_cache) > response_cache_size: popitem(last=False)
cache_bound(cache, size) ==
  IF Len(cache) > size THEN Tail(cache) ELSE cache

\* session.get returns: a response, which is cached, or a failure, which
\* scrape_page raises again.
FetchDone(t) ==
  /\ tasks[t].pc = "fetching"
  /\ \E ok \in BOOLEAN :
       IF ok
       THEN /\ response_cache' = cache_store(response_cache, Url(t))
            /\ tasks' = Set(t, [tasks[t] EXCEPT !.pc = "evict"])
            /\ UNCHANGED fetch_failed
       ELSE /\ fetch_failed' = fetch_failed \cup {Url(t)}
            /\ tasks' = Set(t, [tasks[t] EXCEPT !.pc = "raised"])
            /\ UNCHANGED response_cache
  /\ UNCHANGED <<calls, config, visited_urls, base_url, base_domain, menu_tree,
                 same_domain_memo, nodes, crawl, fetches>>

\* _get_cached_or_request: popitem(last=False) when over the configured size
Evict(t) ==
  /\ tasks[t].pc = "evict"
  /\ response_cache' = cache_bound(response_cache, config.response_cache_size)
  /\ tasks' = Set(t, [tasks[t] EXCEPT !.pc = "extract"])
  /\ UNCHANGED <<calls, config, visited_urls, base_url, base_domain, menu_tree,
                 same_domain_memo, nodes, crawl, fetches, fetch_failed>>

\* MenuNode with parent_url taken from the base URL of the run.
NewNodeBaseParent(t) ==
  [url        |-> Url(t),
   level      |-> IF IsRoot(t) THEN 0 ELSE nodes[Parent(t)].level + 1,
   parent_url |-> IF IsRoot(t) THEN None ELSE base_url,
   children   |-> <<>>]

\* MenuNode with level 1 for every page that has a parent.
NewNodeFlatLevel(t) ==
  [url        |-> Url(t),
   level      |-> IF IsRoot(t) THEN 0 ELSE 1,
   parent_url |-> IF IsRoot(t) THEN None ELSE nodes[Parent(t)].url,
   children   |-> <<>>]

\* The MenuNode constructed by scrape_page for call t.
NewNode(t) ==
  [url        |-> Url(t),
   level      |-> IF IsRoot(t) THEN 0 ELSE nodes[Parent(t)].level + 1,
   parent_url |-> IF IsRoot(t) THEN None ELSE nodes[Parent(t)].url,
   children   |-> <<>>]

\* The page is parsed and its MenuNode is put at the head of the children
\* of its parent.
ExtractPrepend(t) ==
  /\ tasks[t].pc = "extract"
  /\ nodes' = IF IsRoot(t) THEN (t :> NewNode(t)) @@ nodes
              ELSE (t :> NewNode(t)) @@
                   [nodes EXCEPT ![Parent(t)].children = <<t>> \o @]
  /\ menu_tree' = IF menu_tree = NoNode THEN t ELSE menu_tree
  /\ tasks' = Set(t, [tasks[t] EXCEPT
                 !.result = {Url(t)},
                 !.node = TRUE,
                 !.pc = IF tasks[t].max_depth > 0 THEN "expand" ELSE "returned"])
  /\ UNCHANGED <<calls, config, visited_urls, base_url, base_domain, response_cache,
                 same_domain_memo, crawl, fetches, fetch_failed>>

\* The page is parsed: result[url] = text, the MenuNode is created, set as
\* menu_tree when there is none, and appended to the children of its parent.
Extract(t) ==
  /\ tasks[t].pc = "extract"
  /\ nodes' = IF IsRoot(t) THEN (t :> NewNode(t)) @@ nodes
              ELSE (t :> NewNode(t)) @@
                   [nodes EXCEPT ![Parent(t)].children = Append(@, t)]
  /\ menu_tree' = IF menu_tree = NoNode THEN t ELSE menu_tree
  /\ tasks' = Set(t, [tasks[t] EXCEPT
                 !.result = {Url(t)},
                 !.node = TRUE,
                 !.pc = IF tasks[t].max_depth > 0 THEN "expand" ELSE "returned"])
  /\ UNCHANGED <<calls, config, visited_urls, base_url, base_domain, response_cache,
                 same_domain_memo, crawl, fetches, fetch_failed>>

\* The call returns after its first batch, whatever links are left.
AfterBatchStop(rec) ==
  [rec EXCEPT !.i = rec.i + config.batch_size, !.batch = <<>>,
              !.collected = {}, !.pc = "returned"]

\* The call moves on from the batch at index i: to the next batch, or to the
\* return when the links are used up.
AfterBatch(rec) ==
  LET j == rec.i + config.batch_size
  IN [rec EXCEPT !.i = j, !.batch = <<>>, !.collected = {},
                 !.pc = IF j > Len(rec.links) THEN "returned" ELSE "dispatch"]

\* menu_links = self._filter_urls(self._find_menu_links(soup, url))
Expand(t) ==
  /\ tasks[t].pc = "expand"
  /\ \E listing \in ListingsOf(_find_menu_links(Url(t))) :
     \E links \in {_filter_urls(listing, visited_urls, base_url, base_domain,
                                same_domain_memo, config.excluded_paths)} :
          /\ tasks' = Set(t, [tasks[t] EXCEPT
                         !.links = links, !.i = 1,
                         !.pc = IF links = <<>> THEN "returned" ELSE "dispatch"])
          /\ same_domain_memo' =
               MemoAfter(listing, visited_urls, base_domain, same_domain_memo)
  /\ UNCHANGED <<calls, config, visited_urls, base_url, base_domain, menu_tree,
                 response_cache, nodes, crawl, fetches, fetch_failed>>

Min(a, b) == IF a < b THEN a ELSE b

\* One turn of a loop that submits all the links that are left at once.
DispatchAll(t) ==
  /\ tasks[t].pc = "dispatch"
  /\ LET rec   == tasks[t]
         slice == SubSeq(rec.links, rec.i, Len(rec.links))
         batch == SelectIds(slice, SeqRange(slice) \ visited_urls)
         kids  == [c \in {Append(t, u) : u \in SeqRange(batch)} |->
                     NewTask(Url(c), ChildDepth(rec.max_depth))]
     IN tasks' =
          IF batch = <<>> THEN Set(t, AfterBatch(rec))
          ELSE kids @@ Set(t, [rec EXCEPT !.batch = batch, !.collected = {},
                                          !.pc = "await"])
  /\ UNCHANGED <<calls, config, visited_urls, base_url, base_domain, menu_tree,
                 response_cache, same_domain_memo, nodes, crawl,
                 fetches, fetch_failed>>

\* One turn of the batch loop: the slice of batch_size links, without those
\* visited by now, is submitted to a new ThreadPoolExecutor.
Dispatch(t) ==
  /\ tasks[t].pc = "dispatch"
  /\ LET rec   == tasks[t]
         slice == SubSeq(rec.links, rec.i,
                         Min(rec.i + config.batch_size - 1, Len(rec.links)))
         batch == SelectIds(slice, SeqRange(slice) \ visited_urls)
         kids  == [c \in {Append(t, u) : u \in SeqRange(batch)} |->
                     NewTask(Url(c), ChildDepth(rec.max_depth))]
     IN tasks' =
          IF batch = <<>> THEN Set(t, AfterBatch(rec))
          ELSE kids @@ Set(t, [rec EXCEPT !.batch = batch, !.collected = {},
                                          !.pc = "await"])
  /\ UNCHANGED <<calls, config, visited_urls, base_url, base_domain, menu_tree,
                 response_cache, same_domain_memo, nodes, crawl,
                 fetches, fetch_failed>>

\* The loop takes the future of link c before its call is over, with the
\* result the call has so far.
CollectUnfinished(t, c) ==
  /\ tasks[t].pc = "await"
  /\ c \in SeqRange(tasks[t].batch) \ tasks[t].collected
  /\ tasks[Append(t, c)].pc # "pending"
  /\ LET kid  == tasks[Append(t, c)]
         rec  == [tasks[t] EXCEPT
                    !.collected = @ \cup {c},
                    !.result = IF kid.pc # "raised" THEN @ \cup kid.result
                               ELSE @]
     IN tasks' = Set(t, IF rec.collected = SeqRange(rec.batch)
                        THEN AfterBatch(rec) ELSE rec)
  /\ UNCHANGED <<calls, config, visited_urls, base_url, base_domain, menu_tree,
                 response_cache, same_domain_memo, nodes, crawl,
                 fetches, fetch_failed>>

\* future.result() outside a try: the exception of a link ends the call.
CollectUncaught(t, c) ==
  /\ tasks[t].pc = "await"
  /\ c \in SeqRange(tasks[t].batch) \ tasks[t].collected
  /\ tasks[Append(t, c)].pc \in Terminal
  /\ LET kid  == tasks[Append(t, c)]
         rec  == [tasks[t] EXCEPT
                    !.collected = @ \cup {c},
                    !.result = IF kid.pc = "returned" THEN @ \cup kid.result
                               ELSE @]
     IN tasks' = Set(t, IF kid.pc = "raised" THEN [rec EXCEPT !.pc = "raised"]
                        ELSE IF rec.collected = SeqRange(rec.batch)
                        THEN AfterBatch(rec) ELSE rec)
  /\ UNCHANGED <<calls, config, visited_urls, base_url, base_domain, menu_tree,
                 response_cache, same_domain_memo, nodes, crawl,
                 fetches, fetch_failed>>

\* as_completed yields the future of link c: its result is merged into the
\* result of the call, or its exception is caught.
Collect(t, c) ==
  /\ tasks[t].pc = "await"
  /\ c \in SeqRange(tasks[t].batch) \ tasks[t].collected
  /\ tasks[Append(t, c)].pc \in Terminal
  /\ LET kid  == tasks[Append(t, c)]
         rec  == [tasks[t] EXCEPT
                    !.collected = @ \cup {c},
                    !.result = IF kid.pc = "returned" THEN @ \cup kid.result
                               ELSE @]
     IN tasks' = Set(t, IF rec.collected = SeqRange(rec.batch)
                        THEN AfterBatch(rec) ELSE rec)
  /\ UNCHANGED <<calls, config, visited_urls, base_url, base_domain, menu_tree,
                 response_cache, same_domain_memo, nodes, crawl,
                 fetches, fetch_failed>>

\* scrape_site that logs the exception of the root call and returns.
FinishSwallow ==
  /\ crawl.status = "running"
  /\ tasks[<<crawl.url>>].pc \in Terminal
  /\ crawl' = [crawl EXCEPT
                 !.status = "returned",
                 !.result = tasks[<<crawl.url>>].result]
  /\ UNCHANGED <<calls, config, visited_urls, base_url, base_domain, menu_tree,
                 response_cache, same_domain_memo, nodes, tasks,
                 fetches, fetch_failed>>

\* scrape_site returns the result of the root call, or raises what it raised.
Finish ==
  /\ crawl.status = "running"
  /\ tasks[<<crawl.url>>].pc \in Terminal
  /\ crawl' = [crawl EXCEPT
                 !.status = tasks[<<crawl.url>>].pc,
                 !.result = IF tasks[<<crawl.url>>].pc = "returned"
                            THEN tasks[<<crawl.url>>].result ELSE {}]
  /\ UNCHANGED <<calls, config, visited_urls, base_url, base_domain, menu_tree,
                 response_cache, same_domain_memo, nodes, tasks,
                 fetches, fetch_failed>>

\* the steps of the calls of scrape_page and the end of scrape_site
Steps ==
  \/ \E t \in DOMAIN tasks : Start(t)
  \/ \E t \in DOMAIN tasks : Begin(t)
  \/ \E t \in DOMAIN tasks : Visit(t)
  \/ \E t \in DOMAIN tasks : Lookup(t)
  \/ \E t \in DOMAIN tasks : CacheRead(t)
  \/ \E t \in DOMAIN tasks : FetchDone(t)
  \/ \E t \in DOMAIN tasks : Evict(t)
  \/ \E t \in DOMAIN tasks : Extract(t)
  \/ \E t \in DOMAIN tasks : Expand(t)
  \/ \E t \in DOMAIN tasks : Dispatch(t)
  \/ \E t \in DOMAIN tasks : \E c \in UrlId : Collect(t, c)
  \/ Finish

Next == StartCrawl \/ Steps

Spec == Init /\ [][Next]_vars

\* Threads run and every session.get returns: a step that can be taken is
\* eventually taken.
LiveSpec == Init /\ [][Next]_vars /\ WF_vars(Next)

\* a scrape_site that empties visited_urls before it starts
CrawlAgainFresh ==
  /\ crawl.status = "returned"
  /\ Len(calls) < MaxRecrawlBound
  /\ calls' = Append(calls, [fn |-> "scrape_site", url |-> crawl.url,
                             max_depth |-> crawl.max_depth,
                             ret |-> crawl.result])
  /\ crawl' = [crawl EXCEPT !.status = "running", !.result = {}]
  /\ tasks' = [tasks EXCEPT ![<<crawl.url>>] =
                                NewTask(crawl.url, crawl.max_depth)]
  /\ visited_urls' = {}
  /\ UNCHANGED <<config, base_url, base_domain, menu_tree,
                 response_cache, same_domain_memo, nodes, fetches,
                 fetch_failed>>

\* ------------------------------------------------- the engine used again
\* The caller notes what scrape_site returned and calls it again on the same
\* WebScraper with the same arguments: scrape_site resets nothing, it calls
\* scrape_page for the root on the engine as the earlier crawl left it.
CrawlAgain ==
  /\ crawl.status = "returned"
  /\ Len(calls) < MaxRecrawlBound
  /\ calls' = Append(calls, [fn |-> "scrape_site", url |-> crawl.url,
                             max_depth |-> crawl.max_depth,
                             ret |-> crawl.result])
  /\ crawl' = [crawl EXCEPT !.status = "running", !.result = {}]
  /\ tasks' = [tasks EXCEPT ![<<crawl.url>>] =
                                NewTask(crawl.url, crawl.max_depth)]
  /\ UNCHANGED <<config, visited_urls, base_url, base_domain, menu_tree,
                 response_cache, same_domain_memo, nodes, fetches,
                 fetch_failed>>

ReuseNext == Next \/ CrawlAgain

ReuseSpec == Init /\ [][ReuseNext]_vars

\* ------------------------------------------- the crawl of docs.example.com
\* scrape_site("https://docs.example.com/", max_depth) on a new engine: the
\* root page links to /a, to /b and to a page of other.example.
ScenarioStart == StartCrawlFrom({Docs})

ScenarioNext == ScenarioStart \/ Steps

ScenarioSpec == Init /\ [][ScenarioNext]_vars

\* ------------------------------------------------ the crawl of hub.example
\* scrape_site("https://hub.example/", max_depth) on a new engine with the
\* largest configuration: the root links to /p and /q, /p to /p/s, and /q to
\* /p/s and to /z.
NestedInit ==
  /\ config = [max_workers |-> MaxWorkersBound, batch_size |-> MaxBatchBound,
               response_cache_size |-> MaxCacheBound,
               excluded_paths |-> excluded_paths]
  /\ Fresh

NestedStart == StartCrawlFrom({Hub})

NestedNext == NestedStart \/ Steps

NestedSpec == NestedInit /\ [][NestedNext]_vars

\* ------------------------------------------------ a crawl that is signalled
\* SIGINT or SIGTERM during scrape_site: the handler runs in the main
\* thread, which is the one that runs the root call; it closes the session
\* and calls sys.exit(0), and SystemExit, which no except clause of the
\* engine catches, starts to leave the root call. The calls in the pools go
\* on, with the session closed under them.
Shutdown ==
  /\ crawl.status = "running"
  /\ calls = <<>>
  /\ calls' = <<[fn |-> "signal_handler", session |-> "closed"]>>
  /\ tasks' = Set(<<crawl.url>>, [tasks[<<crawl.url>>] EXCEPT !.pc = "exiting"])
  /\ UNCHANGED <<config, visited_urls, base_url, base_domain, menu_tree,
                 response_cache, same_domain_memo, nodes, crawl,
                 fetches, fetch_failed>>

\* SystemExit leaves the root call without the wait of the with block.
RootExitNoWait ==
  /\ crawl.status = "running"
  /\ tasks[<<crawl.url>>].pc = "exiting"
  /\ tasks' = Set(<<crawl.url>>, [tasks[<<crawl.url>>] EXCEPT !.pc = "raised"])
  /\ UNCHANGED <<calls, config, visited_urls, base_url, base_domain, menu_tree,
                 response_cache, same_domain_memo, nodes, crawl,
                 fetches, fetch_failed>>

\* SystemExit leaves the with block of the executor of the root call, whose
\* exit waits until the calls submitted to it are over, and then the root
\* call and scrape_site.
RootExit ==
  /\ crawl.status = "running"
  /\ tasks[<<crawl.url>>].pc = "exiting"
  /\ \A c \in DOMAIN tasks : c # <<crawl.url>> => tasks[c].pc \in Terminal
  /\ tasks' = Set(<<crawl.url>>, [tasks[<<crawl.url>>] EXCEPT !.pc = "raised"])
  /\ UNCHANGED <<calls, config, visited_urls, base_url, base_domain, menu_tree,
                 response_cache, same_domain_memo, nodes, crawl,
                 fetches, fetch_failed>>

ShutdownNext == ScenarioNext \/ Shutdown \/ RootExit

\* The crawl of docs.example.com with the largest configuration; threads
\* run and every session.get returns.
ShutdownSpec ==
  NestedInit /\ [][ShutdownNext]_vars /\ WF_vars(ShutdownNext)

\* ------------------------------------------- the response cache on its own
\* The URLs a sequential caller asks the cache for.
CacheUrls == {R, A, B, C}

CacheInit ==
  /\ config \in [max_workers : {1}, batch_size : {1},
                 response_cache_size : 1..MaxCapacityBound,
                 excluded_paths : {excluded_paths}]
  /\ Fresh

\* One whole call of _get_cached_or_request(u) with no other call under way:
\* a hit returns the cached response; a miss calls session.get, and a
\* response is stored and the cache cut to its size, a failure raises.
CachedRequest(u) ==
  /\ Len(calls) < MaxRequestsBound
  /\ IF u \in SeqRange(response_cache)
     THEN /\ calls' = Append(calls, [url |-> u, hit |-> TRUE, ok |-> TRUE])
          /\ UNCHANGED <<response_cache, fetches, fetch_failed>>
     ELSE \E ok \in BOOLEAN :
          /\ calls' = Append(calls, [url |-> u, hit |-> FALSE, ok |-> ok])
          /\ fetches' = [fetches EXCEPT ![u] = @ + 1]
          /\ response_cache' =
               IF ok THEN cache_bound(cache_store(response_cache, u),
                                      config.response_cache_size)
               ELSE response_cache
          /\ fetch_failed' = IF ok THEN fetch_failed ELSE fetch_failed \cup {u}
  /\ UNCHANGED <<config, visited_urls, base_url, base_domain, menu_tree,
                 same_domain_memo, nodes, tasks, crawl>>

CacheNext == \E u \in CacheUrls : CachedRequest(u)

CacheSpec == CacheInit /\ [][CacheNext]_vars

\* ------------------------------------------------ the filter on its own
\* The candidate lists handed to _filter_urls: the listings of the subsets
\* of the links of a page of d.example, and of the URLs of the test of the
\* Snowflake scraper.
PageCandidates == {R, A, C, Arch, X}

SnowflakeCandidates ==
  {SnowIntro, SnowArchive, SnowCreate, ExamplePage, SnowNotes}

\* links with a query string, with a fragment and of a pseudo scheme
MarkedCandidates == {A, AQuery, AFragment, MailTo}

CandidateLists ==
  UNION {ListingsOf(S) : S \in SUBSET PageCandidates
                                \cup SUBSET SnowflakeCandidates
                                \cup SUBSET MarkedCandidates}

\* The engine as a caller of _filter_urls finds or sets it: no base or the
\* base of a run, the URLs visited, the excluded paths of the configuration.
FilterInit ==
  /\ config \in [max_workers : {1}, batch_size : {1},
                 response_cache_size : {1},
                 excluded_paths : {excluded_paths, {<<"/", "archive", "/">>}}]
  /\ base_url \in {None, R}
  /\ base_domain = IF base_url = None THEN NoDomain
                   ELSE UrlParts[base_url].netloc
  /\ visited_urls \in {{}, {R}, {R, A}, SnowflakeCandidates}
  /\ menu_tree = NoNode
  /\ response_cache = <<>>
  /\ same_domain_memo = <<>>
  /\ nodes = <<>>
  /\ tasks = <<>>
  /\ crawl = [status |-> "idle", url |-> None, max_depth |-> 0, result |-> {}]
  /\ fetches = [u \in UrlId |-> 0]
  /\ fetch_failed = {}
  /\ calls = <<>>

\* WebScraper._filter_urls(urls) called on the engine
FilterUrls ==
  /\ calls = <<>>
  /\ \E urls \in CandidateLists :
       /\ calls' = <<[fn |-> "WebScraper._filter_urls", urls |-> urls,
                      ret |-> _filter_urls(urls, visited_urls, base_url,
                                base_domain, same_domain_memo,
                                config.excluded_paths)]>>
       /\ same_domain_memo' =
            MemoAfter(urls, visited_urls, base_domain, same_domain_memo)
  /\ UNCHANGED <<config, visited_urls, base_url, base_domain, menu_tree,
                 response_cache, nodes, tasks, crawl, fetches, fetch_failed>>

\* SnowflakeDocScraper._filter_urls(urls) called on the engine
SnowflakeFilterUrls ==
  /\ calls = <<>>
  /\ \E urls \in CandidateLists :
       /\ calls' = <<[fn |-> "SnowflakeDocScraper._filter_urls", urls |-> urls,
                      ret |-> Snowflake_filter_urls(urls, visited_urls,
                                base_url, base_domain, same_domain_memo,
                                config.excluded_paths)]>>
       /\ same_domain_memo' =
            MemoAfter(urls, visited_urls, base_domain, same_domain_memo)
  /\ UNCHANGED <<config, visited_urls, base_url, base_domain, menu_tree,
                 response_cache, nodes, tasks, crawl, fetches, fetch_failed>>

\* WebScraper._filter_urls called again on the list it has just returned
FilterAgain ==
  /\ Len(calls) = 1
  /\ calls[1].fn = "WebScraper._filter_urls"
  /\ \E urls \in {calls[1].ret} :
       /\ calls' = Append(calls,
                      [fn |-> "WebScraper._filter_urls", urls |-> urls,
                       ret |-> _filter_urls(urls, visited_urls, base_url,
                                 base_domain, same_domain_memo,
                                 config.excluded_paths)])
       /\ same_domain_memo' =
            MemoAfter(urls, visited_urls, base_domain, same_domain_memo)
  /\ UNCHANGED <<config, visited_urls, base_url, base_domain, menu_tree,
                 response_cache, nodes, tasks, crawl, fetches, fetch_failed>>

FilterNext == FilterUrls \/ SnowflakeFilterUrls \/ FilterAgain

FilterSpec == FilterInit /\ [][FilterNext]_vars

\* ---------------------------------------------- the adapters on their own
\* The adapter classes: the two built-in ones and BaseSiteAdapter.
AdapterNames == {"default", "snowflake", "base"}

\* AdapterRegistry.register on the dict _adapters: the registries that
\* registrations of different adapters, in any order, can build.
Registries ==
  UNION {ListingsOf(S) : S \in SUBSET AdapterNames}

\* the url argument: a URL of the table or the empty string
UrlArgs == {Urls[i] : i \in UrlId} \cup {<<>>}

\* AdapterRegistry.get_adapter_for_url(url) on a registry
Resolve ==
  /\ calls = <<>>
  /\ \E adapters \in Registries, u \in UrlArgs :
       calls' = <<[fn |-> "get_adapter_for_url", adapters |-> adapters,
                   url |-> u, ret |-> first_adapter(adapters, 1, u)]>>
  /\ UNCHANGED <<config, visited_urls, base_url, base_domain, menu_tree,
                 response_cache, same_domain_memo, nodes, tasks, crawl,
                 fetches, fetch_failed>>

\* The pages handed to extract_content: elements without children, and
\* containers that are empty or hold one paragraph or one heading.
LeafElements ==
  { Elem("p", "", <<"Hello">>, <<>>), Elem("p", "", <<" ">>, <<>>),
    Elem("h2", "", <<"Title">>, <<>>), Elem("h2", "", <<" ">>, <<>>),
    Elem("pre", "", <<"code">>, <<>>), Elem("nav", "", <<"Menu">>, <<>>),
    Elem("script", "", <<"js">>, <<>>) }

ContainerKinds ==
  { <<"main", "">>, <<"div", ".content">>,
    <<"div", ".documentationContent">>, <<"nav", "">> }

ContainerElements ==
  { Elem(c[1], c[2], <<>>, kids) :
      c \in ContainerKinds,
      kids \in { <<>>, <<Elem("p", "", <<"Hello">>, <<>>)>>,
                 <<Elem("h2", "", <<"Title">>, <<>>)>> } }

Documents ==
  UNION { [1..n -> LeafElements \cup ContainerElements] : n \in 0..MaxBodyBound }

\* SnowflakeAdapter.extract_content(soup) and
\* DefaultSiteAdapter.extract_content(soup), which is the one of the base
SnowflakeExtract ==
  /\ calls = <<>>
  /\ \E doc \in Documents :
       calls' = <<[fn |-> "SnowflakeAdapter.extract_content", soup |-> doc,
                   ret |-> Snowflake_extract_content(doc)]>>
  /\ UNCHANGED <<config, visited_urls, base_url, base_domain, menu_tree,
                 response_cache, same_domain_memo, nodes, tasks, crawl,
                 fetches, fetch_failed>>

DefaultExtract ==
  /\ calls = <<>>
  /\ \E doc \in Documents :
       calls' = <<[fn |-> "DefaultSiteAdapter.extract_content", soup |-> doc,
                   ret |-> Base_extract_content(doc)]>>
  /\ UNCHANGED <<config, visited_urls, base_url, base_domain, menu_tree,
                 response_cache, same_domain_memo, nodes, tasks, crawl,
                 fetches, fetch_failed>>

AdapterInit ==
  /\ config = [max_workers |-> 1, batch_size |-> 1,
               response_cache_size |-> 1, excluded_paths |-> excluded_paths]
  /\ Fresh

\* WebScraper._find_menu_links on a page whose anchors under the priority
\* selectors give the links priority and whose anchors under the remaining
\* selectors give the links other
FindMenuLinks ==
  /\ calls = <<>>
  /\ \E priority \in SUBSET {R, A, B, C, Arch, X},
        other \in SUBSET {A, DocsA, DocsB} :
       calls' = <<[fn |-> "_find_menu_links", priority |-> priority,
                   other |-> other, ret |-> menu_links(priority, other)]>>
  /\ UNCHANGED <<config, visited_urls, base_url, base_domain, menu_tree,
                 response_cache, same_domain_memo, nodes, tasks, crawl,
                 fetches, fetch_failed>>

\* DefaultSiteAdapter.filter_urls(urls, base_url) and
\* SnowflakeAdapter.filter_urls(urls, base_url) on a list of URLs
AdapterFilterUrls ==
  /\ calls = <<>>
  /\ \E name \in {"default", "snowflake"},
        S \in SUBSET {SnowIntro, SnowArchive, SnowCreate, ExamplePage,
                      SnowUpper} :
     \E urls \in ListingsOf(S) :
       calls' = <<[fn |-> "filter_urls", adapter |-> name, urls |-> urls,
                   ret |-> adapter_filter_urls(name, urls)]>>
  /\ UNCHANGED <<config, visited_urls, base_url, base_domain, menu_tree,
                 response_cache, same_domain_memo, nodes, tasks, crawl,
                 fetches, fetch_failed>>

AdapterNext ==
  \/ Resolve
  \/ SnowflakeExtract
  \/ DefaultExtract
  \/ FindMenuLinks
  \/ AdapterFilterUrls

AdapterSpec == AdapterInit /\ [][AdapterNext]_vars

\* ------------------------------------------------------------------ claims
Kids(t) == {c \in DOMAIN tasks : Len(c) = Len(t) + 1 /\ Parent(c) = t}

Host(u) == UrlParts[u].netloc

\* the calls that recorded result[url] = text for u
Entries(u) == {t \in DOMAIN tasks : Url(t) = u /\ tasks[t].node}

\* C1: session.get is called at most once per URL and at most one call
\* records a content entry for a URL, whatever the interleaving.
C1_FetchedOnce ==
  \A u \in UrlId : fetches[u] <= 1 /\ Cardinality(Entries(u)) <= 1

\* C2: a crawl that was started eventually returns or raises.
C2_Terminates ==
  (crawl.status = "running") ~> (crawl.status \in Terminal)

C2_Witness ==
  /\ crawl.status = "returned"
  /\ crawl.url = R
  /\ crawl.max_depth = MaxDepthBound
  /\ C \in crawl.result
  /\ config.max_workers = 1

\* C3: every node has level <= max_depth of the crawl, and the node of a
\* call made with max_depth 0 has no children.
C3_DepthBound ==
  \A n \in DOMAIN nodes :
    /\ nodes[n].level <= crawl.max_depth
    /\ (tasks[n].max_depth = 0 => nodes[n].children = <<>>)

C3_Witness ==
  \E n \in DOMAIN nodes :
    /\ crawl.max_depth = 2
    /\ nodes[n].level = 2
    /\ tasks[n].max_depth = 0
    /\ crawl.status = "returned"

\* C4: every key of every result map has the host of the root URL, and no
\* URL of another host is requested.
C4_DomainConfined ==
  /\ \A t \in DOMAIN tasks : \A u \in tasks[t].result : Host(u) = Host(crawl.url)
  /\ \A u \in crawl.result : Host(u) = Host(crawl.url)
  /\ \A u \in UrlId : fetches[u] > 0 => Host(u) = Host(crawl.url)
  /\ base_domain # NoDomain => base_domain = Host(crawl.url)

C4_Witness ==
  /\ crawl.status = "returned"
  /\ crawl.url = R2
  /\ crawl.max_depth >= 1
  /\ crawl.result = {R2}

\* C5: a call whose own page was extracted never raises; when it has
\* returned, every link it kept is visited, every call it submitted is over,
\* and the result of each one that returned is part of its result.
C5_FailureIsolation ==
  \A t \in DOMAIN tasks :
    /\ tasks[t].node => tasks[t].pc # "raised"
    /\ (tasks[t].node /\ tasks[t].pc = "returned") =>
         /\ \A u \in SeqRange(tasks[t].links) :
              Append(t, u) \in DOMAIN tasks \/ u \in visited_urls
         /\ \A c \in Kids(t) :
              /\ tasks[c].pc \in Terminal
              /\ tasks[c].pc = "returned" => tasks[c].result \subseteq tasks[t].result

C5_Witness ==
  \E t \in DOMAIN tasks : \E c1, c2 \in Kids(t) :
    /\ tasks[t].pc = "returned"
    /\ tasks[c1].pc = "raised"
    /\ Url(c1) \in fetch_failed
    /\ tasks[c2].pc = "returned"
    /\ tasks[c2].node
    /\ Url(c2) \in tasks[t].result

\* C6: when the request of the root URL fails, the crawl never returns, it
\* ends raised with no result, and there is no menu tree.
C6_RootFailureFatal ==
  (crawl.status # "idle" /\ crawl.url \in fetch_failed) =>
    /\ crawl.status # "returned"
    /\ crawl.result = {}
    /\ menu_tree = NoNode
    /\ nodes = <<>>

C6_Witness ==
  /\ crawl.status = "raised"
  /\ crawl.url \in fetch_failed

\* C7: once a request of a URL has failed, the URL stays visited, no further
\* request is made for it, and no call has a content entry or a node for it.
C7_FailedStaysVisited ==
  [][\A u \in fetch_failed :
       /\ u \in visited_urls'
       /\ fetches'[u] = fetches[u]
       /\ \A t \in DOMAIN tasks' : Url(t) = u => ~tasks'[t].node
       /\ \A n \in DOMAIN nodes' : nodes'[n].url # u]_vars

\* the number of times n occurs in the children list of p
Occurrences(p, n) ==
  Cardinality({i \in 1..Len(nodes[p].children) : nodes[p].children[i] = n})

Holders(n) == {p \in DOMAIN nodes : Occurrences(p, n) > 0}

\* C8: the root node has no parent_url and is in no children list; every
\* other node is in the children list of exactly one node, once, and its
\* parent_url is the url of that node.
C8_TreeConsistent ==
  \A n \in DOMAIN nodes :
    IF n = menu_tree
    THEN nodes[n].parent_url = None /\ Holders(n) = {}
    ELSE /\ Cardinality(Holders(n)) = 1
         /\ \A p \in Holders(n) :
              Occurrences(p, n) = 1 /\ nodes[n].parent_url = nodes[p].url

C8_Witness ==
  \E n, m \in DOMAIN nodes :
    /\ nodes[n].level = 2
    /\ nodes[m].level = 2
    /\ n # m
    /\ nodes[n].url = nodes[m].url

\* C9: the root node has level 0 and every other node has the level of the
\* node that holds it plus 1.
C9_Levels ==
  \A n \in DOMAIN nodes :
    IF n = menu_tree THEN nodes[n].level = 0
    ELSE \A p \in Holders(n) : nodes[n].level = nodes[p].level + 1

C9_Witness ==
  \E n \in DOMAIN nodes : \E p \in Holders(n) :
    nodes[p].level = 1 /\ nodes[n].level = 2

\* C10: a call on a URL without scheme or without host raises and requests
\* nothing; a crawl of such a URL leaves visited_urls, base_url,
\* base_domain, response_cache and menu_tree as they were.
C10_InvalidUrl ==
  /\ \A t \in DOMAIN tasks :
       (UrlParts[Url(t)].scheme = <<>> \/ Host(Url(t)) = <<>>) =>
         /\ tasks[t].pc \in {"pending", "start", "raised"}
         /\ fetches[Url(t)] = 0
         /\ Url(t) \notin visited_urls
  /\ (crawl.status # "idle" /\
      (UrlParts[crawl.url].scheme = <<>> \/ Host(crawl.url) = <<>>)) =>
         /\ crawl.status # "returned"
         /\ visited_urls = {}
         /\ base_url = None
         /\ base_domain = NoDomain
         /\ response_cache = <<>>
         /\ menu_tree = NoNode
         /\ \A u \in UrlId : fetches[u] = 0

C10_Witness ==
  /\ crawl.status = "raised"
  /\ crawl.url = NoHost
  /\ tasks[<<NoHost>>].pc = "raised"

\* the URLs stored into the cache by the calls made so far, in order
Inserted ==
  LET stored(c) == ~c.hit /\ c.ok
      kept == SelectSeq(calls, stored)
  IN [i \in 1..Len(kept) |-> kept[i].url]

\* C11: after any sequence of calls made one after the other, the cache
\* holds at most response_cache_size entries, and they are the URLs stored
\* last, in the order they were stored: a hit changes neither.
C11_CacheFifo ==
  LET n == Len(Inserted)
      k == Min(n, config.response_cache_size)
  IN /\ Len(response_cache) <= config.response_cache_size
     /\ response_cache = SubSeq(Inserted, n - k + 1, n)

C11_Witness ==
  /\ Len(Inserted) = config.response_cache_size + 1
  /\ Cardinality(SeqRange(Inserted)) = Len(Inserted)
  /\ Len(response_cache) = config.response_cache_size
  /\ Inserted[1] \notin SeqRange(response_cache)
  /\ \E i \in 1..Len(calls) : calls[i].hit /\ calls[i].url = Inserted[1]

\* C12: with "/archive/" as the only excluded path, base
\* https://d.example/docs and nothing visited but the base, _filter_urls
\* on any listing of {/docs/a, /docs/archive/x, other.example/docs/a}
\* returns /docs/a alone.
C12_FilterExample ==
  \A i \in 1..Len(calls) :
    ( /\ calls[i].fn = "WebScraper._filter_urls"
      /\ SeqRange(calls[i].urls) = {A, Arch, X}
      /\ config.excluded_paths = {<<"/", "archive", "/">>}
      /\ base_url = R
      /\ visited_urls = {R} )
    => calls[i].ret = <<A>>

C12_Witness ==
  /\ calls # <<>>
  /\ calls[1].fn = "WebScraper._filter_urls"
  /\ calls[1].urls = <<X, Arch, A>>
  /\ config.excluded_paths = {<<"/", "archive", "/">>}
  /\ base_url = R
  /\ visited_urls = {R}
  /\ calls[1].ret = <<A>>

\* the crawl of https://docs.example.com/ with max_depth 1 has returned and
\* no request has failed
ScenarioDone ==
  /\ crawl.status = "returned"
  /\ crawl.url = Docs
  /\ crawl.max_depth = 1
  /\ fetch_failed = {}

\* C13 as stated: the result of that crawl has exactly 2 entries, and the
\* root node has at most 2 children, all at level 1.
C13_TwoEntries ==
  ScenarioDone =>
    /\ Cardinality(crawl.result) = 2
    /\ Len(nodes[menu_tree].children) <= 2
    /\ \A i \in 1..Len(nodes[menu_tree].children) :
         nodes[nodes[menu_tree].children[i]].level = 1

\* C13, amended: the result of that crawl has exactly 3 entries, the root
\* and the two pages of its domain that the root links to, and not the page
\* of the other domain; the root node has these two pages as its children,
\* both at level 1 and without children.
C13_Scenario ==
  ScenarioDone =>
    /\ crawl.result = {Docs, DocsA, DocsB}
    /\ Len(nodes[menu_tree].children) = 2
    /\ {nodes[nodes[menu_tree].children[i]].url : i \in 1..2} = {DocsA, DocsB}
    /\ \A i \in 1..2 :
         /\ nodes[nodes[menu_tree].children[i]].level = 1
         /\ nodes[nodes[menu_tree].children[i]].children = <<>>

C13_Witness ==
  /\ ScenarioDone
  /\ config.batch_size = 1
  /\ Cardinality(crawl.result) = 3
  /\ nodes[nodes[menu_tree].children[1]].url = DocsB

\* the places in a registry of the adapters that can handle u
Handlers(adapters, u) ==
  {i \in 1..Len(adapters) : can_handle(adapters[i], u)}

\* C14: get_adapter_for_url returns the adapter registered first among
\* those whose can_handle is true for the URL, and the default adapter when
\* there is none.
C14_ResolveFirst ==
  \A c \in 1..Len(calls) :
    calls[c].fn = "get_adapter_for_url" =>
      LET hits == Handlers(calls[c].adapters, calls[c].url)
      IN IF hits = {} THEN calls[c].ret = "default"
         ELSE \E i \in hits :
                /\ \A j \in hits : i <= j
                /\ calls[c].ret = calls[c].adapters[i]

C14_Witness ==
  /\ calls # <<>>
  /\ calls[1].fn = "get_adapter_for_url"
  /\ calls[1].adapters = <<"base", "snowflake", "default">>
  /\ calls[1].url = Urls[SnowIntro]
  /\ calls[1].ret = "snowflake"

\* C15: with the built-in registrations, a URL of docs.snowflake.com
\* resolves to the Snowflake adapter, and only the URLs of the hosts that no
\* site adapter declares resolve to the default adapter.
C15_SiteAdapterResolved ==
  \A c \in 1..Len(calls) :
    (calls[c].fn = "get_adapter_for_url"
       /\ calls[c].adapters = RegisteredAdapters) =>
      /\ calls[c].url # <<>> /\ urlparse(calls[c].url).netloc \in SnowflakeDomains
           => calls[c].ret = "snowflake"
      /\ calls[c].ret = "default"
           => calls[c].url = <<>>
              \/ urlparse(calls[c].url).netloc \notin SnowflakeDomains

\* C16: a crawl of the same root on an engine whose earlier crawl has
\* returned starts from nothing, as on a new engine: when it returns, the
\* root was requested once more and the result holds the root and is the
\* result of a crawl of a new engine.
C16_FreshEachCrawl ==
  (calls # <<>> /\ crawl.status = "returned") =>
    /\ fetches[crawl.url] >= Len(calls) + 1
    /\ crawl.url \in crawl.result
    /\ fetch_failed = {} => crawl.result = calls[1].ret

\* the page has text outside the elements that the extraction removes
HasBodyText(doc) ==
  strip(Texts(Flatten(decompose(doc, DefaultRemoved)))) # <<>>

NoHeadings(doc) ==
  \A i \in 1..Len(Flatten(doc)) : Flatten(doc)[i].tag \notin HeadingTags

\* "\n".join(parts) is the empty string
EmptyText(parts) == \A i \in 1..Len(parts) : parts[i].text = <<>>

\* C17: on a page with text and no heading element, extract_content of the
\* Snowflake adapter returns what the default extraction returns, and that
\* text is not empty.
C17_FallbackNonEmpty ==
  \A c \in 1..Len(calls) :
    ( /\ calls[c].fn = "SnowflakeAdapter.extract_content"
      /\ NoHeadings(calls[c].soup)
      /\ HasBodyText(calls[c].soup) )
    => /\ calls[c].ret = Base_extract_content(calls[c].soup)
       /\ ~EmptyText(calls[c].ret)

\* C18: SnowflakeDocScraper._filter_urls on the URLs of its test, all of
\* them in visited_urls, with no base URL and so every URL of the same
\* domain, returns a list with the two reference URLs of docs.snowflake.com
\* and without the archive URL, the release notes URL and the URL of
\* example.com.
C18_SnowflakeTest ==
  \A c \in 1..Len(calls) :
    ( /\ calls[c].fn = "SnowflakeDocScraper._filter_urls"
      /\ SeqRange(calls[c].urls) = SnowflakeCandidates
      /\ SeqRange(calls[c].urls) \subseteq visited_urls
      /\ base_url = None
      /\ \A u \in SnowflakeCandidates :
           _is_same_domain(same_domain_memo, base_domain, u) )
    => /\ {SnowIntro, SnowCreate} \subseteq SeqRange(calls[c].ret)
       /\ SeqRange(calls[c].ret) \cap {SnowArchive, ExamplePage, SnowNotes} = {}

\* C19: a call of scrape_page that finds its URL in visited_urls returns
\* at once, with no content and no node, and the step changes nothing
\* else: not visited_urls, the cache, the base, the menu tree, the nodes
\* with their children lists, nor the requests made.
C19_VisitedNoOp ==
  [][\A t \in DOMAIN tasks :
       ( /\ tasks[t].pc = "start"
         /\ Url(t) \in visited_urls
         /\ tasks'[t] # tasks[t] )
       => /\ tasks'[t].pc = "returned"
          /\ tasks'[t].result = {}
          /\ ~tasks'[t].node
          /\ UNCHANGED <<visited_urls, response_cache, base_url, base_domain,
                         menu_tree, nodes, fetches, fetch_failed>>]_vars

C19_Witness ==
  \E t \in DOMAIN tasks :
    /\ tasks[t].pc = "returned"
    /\ ~tasks[t].node
    /\ tasks[t].result = {}
    /\ Url(t) \in visited_urls
    /\ fetches[Url(t)] = 1
    /\ tasks[Parent(t)].pc = "returned"

\* the number of the batch of call t that the link of its call c is in
BatchOf(t, c) ==
  LET k == CHOOSE k \in 1..Len(tasks[t].links) : tasks[t].links[k] = Url(c)
  IN (k - 1) \div config.batch_size

\* the call c and all the calls under it are over
SubCrawlOver(c) ==
  \A d \in DOMAIN tasks :
    (Len(d) >= Len(c) /\ SubSeq(d, 1, Len(c)) = c) => tasks[d].pc \in Terminal

\* C20: the links of a call are submitted in batches of at most batch_size
\* links, cut from the list in order; while a call of one batch or a call
\* under it is not over, no link of a later batch is submitted, so none is
\* started or requested.
C20_BatchBarrier ==
  \A t \in DOMAIN tasks :
    /\ Len(tasks[t].batch) <= config.batch_size
    /\ Cardinality({c \in Kids(t) : ~SubCrawlOver(c)}) <= config.batch_size
    /\ \A c \in Kids(t) : Url(c) \in SeqRange(tasks[t].links)
    /\ \A c1, c2 \in Kids(t) :
         BatchOf(t, c1) < BatchOf(t, c2) => SubCrawlOver(c1)

C20_Witness ==
  \E t \in DOMAIN tasks : \E c1, c2 \in Kids(t) :
    /\ BatchOf(t, c1) < BatchOf(t, c2)
    /\ Kids(c1) # {}
    /\ tasks[c2].pc = "fetching"
    /\ config.max_workers = MaxWorkersBound

\* the calls made under call t
Under(t) ==
  {d \in DOMAIN tasks : Len(d) > Len(t) /\ SubSeq(d, 1, Len(t)) = t}

\* C21: when a call of scrape_page is over, every call it submitted and
\* every call under those is over, so no request of its sub-tree is under
\* way; from then on no node is added under its node and the nodes there do
\* not change; after the root call is over, the menu tree, the nodes and
\* visited_urls do not change.
C21_ReturnClosesSubtree ==
  /\ [](\A t \in DOMAIN tasks :
          tasks[t].pc \in Terminal =>
            \A d \in Under(t) : tasks[d].pc \in Terminal)
  /\ [][\A t \in DOMAIN tasks :
          tasks[t].pc \in Terminal =>
            /\ \A d \in DOMAIN nodes' :
                 (d = t \/ (Len(d) > Len(t) /\ SubSeq(d, 1, Len(t)) = t)) =>
                   d \in DOMAIN nodes /\ nodes'[d] = nodes[d]
            /\ IsRoot(t) => UNCHANGED <<nodes, menu_tree, visited_urls>>]_vars

C21_Witness ==
  \E t \in DOMAIN tasks : \E d \in Under(t) : \E s \in DOMAIN tasks :
    /\ ~IsRoot(t)
    /\ tasks[t].pc = "returned"
    /\ d \in DOMAIN nodes
    /\ s \notin Under(t) \cup {t}
    /\ tasks[s].pc = "fetching"
    /\ Kids(s) = {}

\* the calls submitted by call t that a worker runs
Running(t) ==
  {c \in Kids(t) : tasks[c].pc \notin ({"pending"} \cup Terminal)}

\* C22: of the calls submitted by one call of scrape_page, at most
\* max_workers run at any time; a submitted call is started only while
\* fewer than max_workers of them run, and waits otherwise.
C22_PoolBound ==
  /\ [](\A t \in DOMAIN tasks : Cardinality(Running(t)) <= config.max_workers)
  /\ [][\A c \in DOMAIN tasks :
          (~IsRoot(c) /\ tasks[c].pc = "pending" /\ tasks'[c].pc # "pending")
            => Cardinality(Running(Parent(c))) < config.max_workers]_vars

C22_Witness ==
  \E t \in DOMAIN tasks : \E c1, c2 \in Kids(t) :
    /\ config.max_workers = 1
    /\ config.batch_size = 2
    /\ tasks[c1].pc = "fetching"
    /\ tasks[c2].pc = "pending"
    /\ Url(c2) \notin visited_urls

\* the calls whose session.get is under way
InFlight == {t \in DOMAIN tasks : tasks[t].pc = "fetching"}

\* C23: max_workers bounds the requests under way of one pool, not those of
\* the crawl: more than max_workers requests are under way only in a crawl
\* with max_depth >= 2, in the pools of more than one call, and such a state
\* is reached.
C23_NoGlobalBound ==
  Cardinality(InFlight) > config.max_workers =>
    /\ crawl.max_depth >= 2
    /\ Cardinality({Parent(t) : t \in InFlight}) > 1
    /\ \A t \in DOMAIN tasks :
         Cardinality(InFlight \cap Kids(t)) <= config.max_workers

C23_Witness ==
  /\ Cardinality(InFlight) > config.max_workers
  /\ config.max_workers = MaxWorkersBound
  /\ crawl.max_depth = 2
  /\ {Url(t) : t \in InFlight} = {HubS, HubZ}

\* the calls inside _get_cached_or_request, between its membership test and
\* its return
InCache == {t \in DOMAIN tasks : tasks[t].pc \in {"hit", "fetching", "evict"}}

\* C24: at most one call at a time is between the membership test of
\* _get_cached_or_request and its return, and a call that has found its URL
\* in response_cache gets the cached response: it does not raise.
C24_CacheExclusive ==
  /\ [](Cardinality(InCache) <= 1)
  /\ [][\A t \in DOMAIN tasks :
          tasks[t].pc = "hit" => tasks'[t].pc # "raised"]_vars

\* C25: the size of the cache changes only the number of requests: when no
\* request has failed, every call that went past the visited test got its
\* page, from the cache or from a request, as with a cache that keeps every
\* response, so no call has raised, every such call has its node, and its
\* URL is in the result of the crawl.
C25_CacheTransparent ==
  (crawl.status = "returned" /\ fetch_failed = {}) =>
    \A t \in DOMAIN tasks :
      /\ tasks[t].pc = "returned"
      /\ (Url(t) \in visited_urls /\ fetches[Url(t)] > 0) =>
           Url(t) \in crawl.result
      /\ tasks[t].node <=> t \in DOMAIN nodes

\* C26: in a run, where the base is set before the first filter,
\* _filter_urls returns exactly the URLs of its input that are not in
\* visited_urls, have the host base_domain, contain no excluded path, have
\* no query string and no fragment, start with base_url, contain none of
\* javascript:, mailto:, tel:, # and ?, and are kept by filter_urls of the
\* adapter resolved for the base; it returns each of them once and no URL
\* that is not in its input.
C26_FilterExact ==
  \A c \in 1..Len(calls) :
    (calls[c].fn = "WebScraper._filter_urls" /\ base_url # None) =>
      LET adapter == get_adapter_for_url(Urls[base_url])
          kept == {u \in SeqRange(calls[c].urls) :
                     /\ u \notin visited_urls
                     /\ Host(u) = base_domain
                     /\ \A e \in config.excluded_paths : ~contains(Urls[u], e)
                     /\ UrlParts[u].query = <<>>
                     /\ UrlParts[u].fragment = <<>>
                     /\ startswith(Urls[u], Urls[base_url])
                     /\ \A m \in PseudoMarks : ~contains(Urls[u], m)
                     /\ adapter_filter_urls(adapter, <<u>>) = <<u>>}
      IN /\ SeqRange(calls[c].ret) = kept
         /\ Len(calls[c].ret) = Cardinality(kept)
         /\ SeqRange(calls[c].ret) \subseteq SeqRange(calls[c].urls)

C26_Witness ==
  /\ calls # <<>>
  /\ calls[1].fn = "WebScraper._filter_urls"
  /\ calls[1].urls = <<AQuery, MailTo, A, AFragment>>
  /\ base_url = R
  /\ visited_urls = {R}
  /\ calls[1].ret = <<A>>

\* C27 as stated: the links of a call are in descending order of segment
\* count, and when the call of a link v has been submitted, the call of
\* every link u of the same page with more segments has been submitted.
C27_SortedSubmission ==
  \A t \in DOMAIN tasks : \A i, j \in 1..Len(tasks[t].links) :
    LET u == tasks[t].links[i]
        v == tasks[t].links[j]
    IN Segs[u] > Segs[v] =>
         /\ i < j
         /\ Append(t, v) \in DOMAIN tasks => Append(t, u) \in DOMAIN tasks

\* C27, amended: the links of a call are in descending order of segment
\* count, so a link u with more segments than a link v is in the same or an
\* earlier batch; when the call of v has been submitted, the call of u has
\* been submitted, unless u was in visited_urls when its batch was built and
\* was left out; and when the call of v has been started, the call of u, if
\* it was submitted, has been started.
C27_SortedBatches ==
  \A t \in DOMAIN tasks : \A i, j \in 1..Len(tasks[t].links) :
    LET u == tasks[t].links[i]
        v == tasks[t].links[j]
    IN Segs[u] > Segs[v] =>
         /\ i < j
         /\ (i - 1) \div config.batch_size <= (j - 1) \div config.batch_size
         /\ Append(t, v) \in DOMAIN tasks =>
              /\ Append(t, u) \in DOMAIN tasks \/ u \in visited_urls
              /\ (Append(t, u) \in DOMAIN tasks
                    /\ tasks[Append(t, v)].pc # "pending")
                   => tasks[Append(t, u)].pc # "pending"

C27_Witness ==
  \E t \in DOMAIN tasks : \E c1, c2 \in Kids(t) :
    /\ Segs[Url(c1)] > Segs[Url(c2)]
    /\ tasks[c1].pc = "fetching"
    /\ tasks[c2].pc = "fetching"

\* C28 as stated: base_url and base_domain are unset until a request of the
\* run has returned a response; once set they are the root URL and its host
\* and do not change.
C28_BaseAtFirstFetch ==
  /\ [](base_url # None =>
          /\ tasks[<<crawl.url>>].pc \in
               {"evict", "extract", "expand", "dispatch", "await", "returned"}
          /\ base_url = crawl.url
          /\ base_domain = Host(crawl.url))
  /\ [][base_url # None => UNCHANGED <<base_url, base_domain>>]_vars

\* C28, amended: base_url and base_domain are unset until the root call has
\* added its URL to visited_urls, which is before its request is made; from
\* then on they are the root URL and its host, whether the request succeeds
\* or not, and do not change; the links that _filter_urls keeps for a call
\* have that host and start with that URL.
C28_BaseAtFirstVisit ==
  /\ []((base_url # None <=> crawl.url \in visited_urls)
        /\ (base_url = None <=> base_domain = NoDomain)
        /\ (base_url # None =>
              base_url = crawl.url /\ base_domain = Host(crawl.url)))
  /\ [][/\ base_url # None => UNCHANGED <<base_url, base_domain>>
        /\ \A t \in DOMAIN tasks :
             tasks[t].pc = "expand" =>
               \A u \in SeqRange(tasks'[t].links) :
                 /\ Host(u) = Host(crawl.url)
                 /\ startswith(Urls[u], Urls[crawl.url])]_vars

C28_Witness ==
  \E t \in DOMAIN tasks :
    /\ ~IsRoot(t)
    /\ tasks[t].links # <<>>
    /\ base_url = R
    /\ base_domain = Host(R)
    /\ fetch_failed # {}

\* C29: when the crawl has returned, the URLs of the nodes of the menu
\* tree, the keys of the result and the URLs of the pages that were
\* requested and extracted are the same set, and each of these pages has
\* exactly one node.
C29_OneNodePerPage ==
  crawl.status = "returned" =>
    LET extracted == {Url(t) : t \in {c \in DOMAIN tasks : tasks[c].node}}
    IN /\ {nodes[n].url : n \in DOMAIN nodes} = extracted
       /\ crawl.result = extracted
       /\ \A u \in extracted :
            Cardinality({n \in DOMAIN nodes : nodes[n].url = u}) = 1

\* C30: when the crawl has returned and no request has failed, every URL
\* that a path of at most max_depth links leads to from the root, each link
\* being one that the tests of _filter_urls keep, is a key of the result.
C30_Complete ==
  (crawl.status = "returned" /\ fetch_failed = {}) =>
    LET kept(u) == {v \in _find_menu_links(u) :
                      PassesBasic(v, {}, crawl.url, Host(crawl.url), <<>>,
                                  config.excluded_paths)}
        within1 == {crawl.url} \cup
                   (IF crawl.max_depth >= 1 THEN kept(crawl.url) ELSE {})
        within2 == within1 \cup
                   (IF crawl.max_depth >= 2
                    THEN UNION {kept(u) : u \in within1 \ {crawl.url}}
                    ELSE {})
    IN within2 \subseteq crawl.result

\* C31: the children list of a node changes only when a call submitted for
\* one of its links has got and parsed its page, and then the node of that
\* call is appended at the end: the children are in the order in which the
\* calls completed their extraction; for two links of one batch run by two
\* workers, the order of the links and the reverse order are both reached.
C31_CompletionOrder ==
  [][\A p \in DOMAIN nodes :
       \/ nodes'[p].children = nodes[p].children
       \/ \E t \in Kids(p) :
            /\ tasks[t].pc = "extract"
            /\ tasks'[t].node
            /\ nodes'[p].children = Append(nodes[p].children, t)]_vars

C31_Witness ==
  \E p, q \in DOMAIN nodes :
    /\ config.max_workers >= 2
    /\ Len(tasks[p].links) = 2 /\ Len(tasks[q].links) = 2
    /\ nodes[p].children =
         <<Append(p, tasks[p].links[1]), Append(p, tasks[p].links[2])>>
    /\ nodes[q].children =
         <<Append(q, tasks[q].links[2]), Append(q, tasks[q].links[1])>>

\* C32: _find_menu_links returns the links matched by the priority
\* selectors alone when there are 5 or more of them, and these together
\* with the links matched by the remaining selectors when there are fewer:
\* with 5 or more, a link matched only by a remaining selector is not
\* returned.
C32_PriorityFirst ==
  \A c \in 1..Len(calls) :
    calls[c].fn = "_find_menu_links" =>
      IF Cardinality(calls[c].priority) >= 5
      THEN /\ calls[c].ret = calls[c].priority
           /\ calls[c].ret \cap (calls[c].other \ calls[c].priority) = {}
      ELSE calls[c].ret = calls[c].priority \cup calls[c].other

C32_Witness ==
  /\ calls # <<>>
  /\ calls[1].fn = "_find_menu_links"
  /\ calls[1].priority = {R, A, B, C, Arch}
  /\ calls[1].other = {A, DocsA}
  /\ calls[1].ret = {R, A, B, C, Arch}

\* C33: filter_urls of the default adapter returns its input list as it
\* is; filter_urls of the Snowflake adapter returns, in the order of the
\* input, exactly the URLs of the input whose host is docs.snowflake.com and
\* that, in lower case, contain none of /archive/, /release-notes/ and
\* /previous-versions/.
C33_AdapterFilters ==
  \A c \in 1..Len(calls) :
    calls[c].fn = "filter_urls" =>
      LET urls == calls[c].urls
          ret  == calls[c].ret
          pos(u) == CHOOSE i \in 1..Len(urls) : urls[i] = u
          kept == {u \in SeqRange(urls) :
                     /\ Host(u) = <<"docs.snowflake.com">>
                     /\ ~contains(lower(Urls[u]), <<"/", "archive", "/">>)
                     /\ ~contains(lower(Urls[u]), <<"/", "release-notes", "/">>)
                     /\ ~contains(lower(Urls[u]),
                                  <<"/", "previous-versions", "/">>)}
      IN IF calls[c].adapter = "default" THEN ret = urls
         ELSE /\ SeqRange(ret) = kept
              /\ Len(ret) = Cardinality(kept)
              /\ \A i, j \in 1..Len(ret) : i < j => pos(ret[i]) < pos(ret[j])

C33_Witness ==
  /\ calls # <<>>
  /\ calls[1].fn = "filter_urls"
  /\ calls[1].adapter = "snowflake"
  /\ calls[1].urls = <<SnowCreate, SnowUpper, ExamplePage, SnowIntro, SnowArchive>>
  /\ calls[1].ret = <<SnowCreate, SnowIntro>>

NoNodeBelowItself ==
  \A n \in DOMAIN nodes :
    LET below1 == SeqRange(nodes[n].children)
        below2 == UNION {SeqRange(nodes[c].children) : c \in below1}
    IN \A d \in below1 \cup below2 :
         d # n /\ nodes[d].url # nodes[n].url

\* C35: in every state of a crawl each URL is the url of at most one node
\* of the menu tree (a URL linked from several pages is in the children
\* list of one of them only), and no node is its own ancestor.
C35_OneNodePerUrl ==
  /\ \A n, m \in DOMAIN nodes : nodes[n].url = nodes[m].url => n = m
  /\ NoNodeBelowItself

\* C36: no step removes a URL from visited_urls, over any number of
\* scrape_site calls on one scraper, and in every state the keys of every
\* result map and the urls of all nodes are in visited_urls.
C36_VisitedGrows ==
  /\ [](/\ crawl.result \subseteq visited_urls
        /\ \A t \in DOMAIN tasks : tasks[t].result \subseteq visited_urls
        /\ \A n \in DOMAIN nodes : nodes[n].url \in visited_urls
        /\ \A i \in DOMAIN calls : calls[i].ret \subseteq visited_urls)
  /\ [][visited_urls \subseteq visited_urls']_vars

C36_Witness ==
  /\ calls # <<>>
  /\ crawl.status = "returned"
  /\ {R, A, B, C} \subseteq calls[1].ret
  /\ {R, A, B, C} \subseteq visited_urls
  /\ \E n \in DOMAIN nodes : nodes[n].url = C
  /\ fetch_failed # {}

\* the call c has put its URL into visited_urls itself
Claimed(c) ==
  /\ tasks[c].pc \notin {"pending", "start", "add"}
  /\ tasks[c].node \/ tasks[c].pc # "returned"
  /\ ValidUrl[Url(c)]

\* C37 as stated: when a call that expanded its page has returned, every
\* link it kept is in visited_urls, and every link it submitted was put
\* there by the call submitted for it (a link not put there by its own
\* call was left out when its batch was submitted).
C37_ClaimedOrSkipped ==
  \A t \in DOMAIN tasks :
    (tasks[t].node /\ tasks[t].pc = "returned") =>
      \A u \in SeqRange(tasks[t].links) :
        /\ u \in visited_urls
        /\ Append(t, u) \in DOMAIN tasks => Claimed(Append(t, u))

\* C37 amended: when a call that expanded its page has returned, every
\* link it kept is in visited_urls, put there by some call for that URL;
\* the call submitted for the link, if there is one, either did that
\* itself or found the URL visited and returned at once with nothing.
C37_LinksVisited ==
  \A t \in DOMAIN tasks :
    (tasks[t].node /\ tasks[t].pc = "returned") =>
      \A u \in SeqRange(tasks[t].links) :
        /\ u \in visited_urls
        /\ \E c \in DOMAIN tasks : Url(c) = u /\ Claimed(c)
        /\ Append(t, u) \in DOMAIN tasks =>
             \/ Claimed(Append(t, u))
             \/ /\ tasks[Append(t, u)].pc = "returned"
                /\ tasks[Append(t, u)].result = {}

C37_Witness ==
  \E t, o \in DOMAIN tasks : \E u \in SeqRange(tasks[t].links) :
    /\ tasks[t].node
    /\ tasks[t].pc = "returned"
    /\ Append(t, u) \in DOMAIN tasks
    /\ ~Claimed(Append(t, u))
    /\ o # t
    /\ Append(o, u) \in DOMAIN tasks
    /\ Claimed(Append(o, u))
    /\ \A v \in UrlId : fetches[v] <= 1
    /\ crawl.status = "returned"

\* C38: during a crawl no call finds its URL in response_cache (so no page
\* is served from the cache), and the requests made for a URL are as many
\* as the calls that have made the membership test of
\* _get_cached_or_request for it.
C38_AlwaysMiss ==
  /\ \A t \in DOMAIN tasks : tasks[t].pc # "hit"
  /\ \A u \in UrlId :
       fetches[u] = Cardinality({t \in DOMAIN tasks :
                      Url(t) = u /\ Claimed(t) /\ tasks[t].pc # "lookup"})

\* C39: the result map of a call changes only in steps of that call: when
\* it records its own page, and when, waiting for a batch, it merges the
\* whole map of a call it submitted that has returned, which does not
\* change any more; and the map a crawl returns is the union of the maps
\* of all the calls that returned.
C39_OwnResultMap ==
  /\ [][\A t \in DOMAIN tasks :
          \/ tasks'[t].result = tasks[t].result
          \/ /\ tasks[t].pc = "extract"
             /\ tasks'[t].result = tasks[t].result \cup {Url(t)}
          \/ /\ tasks[t].pc = "await"
             /\ \E c \in Kids(t) :
                  /\ tasks[c].pc = "returned"
                  /\ tasks'[c] = tasks[c]
                  /\ tasks'[t].result = tasks[t].result \cup tasks[c].result]_vars
  /\ [][\A t \in DOMAIN tasks :
          tasks[t].pc \in Terminal => tasks'[t].result = tasks[t].result]_vars
  /\ [](crawl.status = "returned" =>
          crawl.result = UNION {tasks[t].result :
                                  t \in {c \in DOMAIN tasks :
                                           tasks[c].pc = "returned"}})

C39_Witness ==
  \E t \in DOMAIN tasks : \E c, d \in Kids(t) :
    /\ crawl.status = "returned"
    /\ ~IsRoot(t)
    /\ tasks[c].pc = "returned"
    /\ tasks[c].node
    /\ tasks[d].pc = "raised"
    /\ tasks[t].result = {Url(t), Url(c)}
    /\ tasks[t].result \subseteq crawl.result
    /\ crawl.result # tasks[t].result

\* C40: with visited_urls, the base and the configuration unchanged,
\* _filter_urls called on the list it has just returned returns that list:
\* the same URLs in the same order.
C40_FilterIdempotent ==
  Len(calls) = 2 =>
    /\ calls[2].urls = calls[1].ret
    /\ calls[2].ret = calls[1].ret

C40_Witness ==
  /\ Len(calls) = 2
  /\ calls[2].ret = calls[1].ret
  /\ calls[1].ret # calls[1].urls
  /\ Len(calls[1].ret) < Len(calls[1].urls)
  /\ \E i, j, k \in 1..Len(calls[1].ret) :
       /\ i < j
       /\ Segs[calls[1].ret[i]] = Segs[calls[1].ret[j]]
       /\ Segs[calls[1].ret[k]] # Segs[calls[1].ret[i]]
====
